---- MODULE Spec2Model ----
(***************************************************************************)
(* Model of scraper.py (LinkedInScraper): one run of the tracker is the    *)
(* sequence  run -> setup_driver -> login_to_linkedin ->                   *)
(* search_yc_ai_startups -> save_startups_data -> update_readme, or, when  *)
(* no credentials are given, run -> save_startups_data -> update_readme    *)
(* on the built-in mock batch.  The state is the two files the program     *)
(* owns (data/startups.json and README.md) and the locals of run().        *)
(*                                                                         *)
(* Text is a sequence of one-character strings, so that substring tests,   *)
(* str.lower, slicing and string comparison are computed, not assumed.     *)
(***************************************************************************)
EXTENDS Integers, Sequences, FiniteSets, TLC

VARIABLES
    storeFile,      \* content of data/startups.json
    readme,         \* content of README.md
    pc,             \* position inside run(): idle, setup, login, search, save, render
    creds,          \* run() was given both a username and a password
    today,          \* index into Calendar of datetime.datetime.now() for this run
    cards,          \* the company cards find_elements returned, until driver.quit()
    batch,          \* the list handed to save_startups_data (startups / mock_startups)
    all_startups,   \* the list save_startups_data returned, handed to update_readme
    outcome,        \* how the last run ended
    runs,           \* number of runs started
    store0,         \* storeFile when the current run started
    readme0,        \* readme when the current run started
    passed,         \* all_startups as it was when update_readme was called
    save_called,    \* save_startups_data was entered in the current run
    render_called   \* update_readme was entered in the current run

vars == <<storeFile, readme, pc, creds, today, cards, batch, all_startups, outcome,
          runs, store0, readme0, passed, save_called, render_called>>

---------------------------------------------------------------------------
(* Bounds of the model. *)

\* runs of the program in one behaviour
MaxRuns == 2
\* company cards one search returns
MaxCards == 2
\* calendar days the runs are spread over
MaxDay == 2

\* description[:100]
TruncLen == 100

---------------------------------------------------------------------------
(* Text. *)

UpperCase == <<"A","B","C","D","E","F","G","H","I","J","K","L","M",
               "N","O","P","Q","R","S","T","U","V","W","X","Y","Z">>
LowerCase == <<"a","b","c","d","e","f","g","h","i","j","k","l","m",
               "n","o","p","q","r","s","t","u","v","w","x","y","z">>

\* str.lower() on one character
LowerChar(c) ==
    IF \E i \in 1..26 : UpperCase[i] = c
    THEN LowerCase[CHOOSE i \in 1..26 : UpperCase[i] = c]
    ELSE c

\* str.lower()
Lower(s) == [i \in 1..Len(s) |-> LowerChar(s[i])]

\* sub in s
Contains(sub, s) ==
    \E i \in 0..(Len(s) - Len(sub)) : SubSeq(s, i + 1, i + Len(sub)) = sub

DigitChar == <<"0","1","2","3","4","5","6","7","8","9">>

\* code point of the characters a found_date is made of
Ord(c) ==
    IF c = "-" THEN 45
    ELSE 47 + (CHOOSE i \in 1..10 : DigitChar[i] = c)

\* a < b on str: lexicographic by code point, a proper prefix is smaller
RECURSIVE StrLess(_, _)
StrLess(a, b) ==
    IF b = <<>> THEN FALSE
    ELSE IF a = <<>> THEN TRUE
    ELSE IF Ord(Head(a)) # Ord(Head(b)) THEN Ord(Head(a)) < Ord(Head(b))
    ELSE StrLess(Tail(a), Tail(b))

Pad2(n) == <<DigitChar[((n \div 10) % 10) + 1], DigitChar[(n % 10) + 1]>>
Pad4(n) == Pad2(n \div 100) \o Pad2(n % 100)

\* the days datetime.datetime.now() falls on, in time order
Calendar == << [y |-> 2023, m |-> 12, d |-> 31], [y |-> 2024, m |-> 1, d |-> 9],
               [y |-> 2024, m |-> 1, d |-> 10],  [y |-> 2024, m |-> 2, d |-> 1] >>

\* datetime.datetime.now().strftime("%Y-%m-%d") on day number n
strftime(n) ==
    Pad4(Calendar[n].y) \o <<"-">> \o Pad2(Calendar[n].m) \o <<"-">> \o Pad2(Calendar[n].d)

S_AI == <<"A","I">>
S_YC == <<"Y","C">>
S_artificial_intelligence ==
    <<"a","r","t","i","f","i","c","i","a","l"," ","i","n","t","e","l","l","i","g","e",
    "n","c","e">>
S_Y_Combinator ==
    <<"Y"," ","C","o","m","b","i","n","a","t","o","r">>
S_NA == <<"N","/","A">>
S_dots == <<".",".",".">>

---------------------------------------------------------------------------
(* Inputs: what LinkedIn shows. *)

D_AI_YC == <<"A","I"," ","Y","C">>
D_AI_only == <<"A","I"," ","l","a","b">>
D_YC_only == <<"a","i"," ","Y","C"," ","f","u","n","d">>
D_Phrase ==
    <<"A","r","t","i","f","i","c","i","a","l"," ","I","n","t","e","l","l","i","g","e",
    "n","c","e"," ","Y"," ","C","o","m","b","i","n","a","t","o","r">>
D_phrase_lower ==
    <<"a","r","t","i","f","i","c","i","a","l"," ","i","n","t","e","l","l","i","g","e",
    "n","c","e"," ","y"," ","c","o","m","b","i","n","a","t","o","r">>
D_inside_words == <<"L","Y","C","R","A"," ","A","I","R">>

URL(name) == <<"https://www.linkedin.com/company/", name>>
NoURL == <<>>

\* One company card.  name_ok / desc_ok / url_ok: the find_element for that
\* part succeeds; name and description are the .text.strip() results.
Card(name_ok, name, desc_ok, description, url_ok) ==
    [name_ok |-> name_ok, name |-> name, desc_ok |-> desc_ok,
     description |-> description, url_ok |-> url_ok, href |-> URL(name)]

CardPool ==
    { Card(FALSE, "X", TRUE, D_AI_YC, TRUE),
      Card(TRUE, "X", FALSE, D_AI_YC, TRUE),
      Card(TRUE, "X", TRUE, D_AI_YC, TRUE),
      Card(TRUE, "X", TRUE, D_Phrase, FALSE),
      Card(TRUE, "x", TRUE, D_inside_words, TRUE),
      Card(TRUE, "X", TRUE, D_AI_only, TRUE),
      Card(TRUE, "x", TRUE, D_YC_only, TRUE),
      Card(TRUE, "x", TRUE, D_phrase_lower, TRUE) }

CardSeqs == UNION { [1..n -> CardPool] : n \in 0..MaxCards }

---------------------------------------------------------------------------
(* The program. *)

Range(s) == { s[i] : i \in 1..Len(s) }

\* dict.get(key, default)
Get(r, key, default) == IF key \in DOMAIN r THEN r[key] ELSE default

\* mutant: "or" between the two halves of the condition
QualifiesEitherHalf(company_description) ==
    \/ \/ Contains(S_AI, company_description)
       \/ Contains(S_artificial_intelligence, Lower(company_description))
    \/ \/ Contains(S_Y_Combinator, company_description)
       \/ Contains(S_YC, company_description)

\* the condition of the if in search_yc_ai_startups
Qualifies(company_description) ==
    /\ \/ Contains(S_AI, company_description)
       \/ Contains(S_artificial_intelligence, Lower(company_description))
    /\ \/ Contains(S_Y_Combinator, company_description)
       \/ Contains(S_YC, company_description)

\* the startup dict built from a card
Startup(card, now) ==
    [name |-> card.name,
     description |-> card.description,
     url |-> IF card.url_ok THEN card.href ELSE NoURL,
     found_date |-> strftime(now)]

\* the for loop of search_yc_ai_startups; a card whose name or description
\* cannot be found raises, is logged and skipped
RECURSIVE SearchLoop(_, _, _)
SearchLoop(company_cards, startups, now) ==
    IF company_cards = <<>> THEN startups
    ELSE LET card == Head(company_cards) IN
         IF ~card.name_ok \/ ~card.desc_ok
         THEN SearchLoop(Tail(company_cards), startups, now)
         ELSE IF Qualifies(card.description)
         THEN SearchLoop(Tail(company_cards), Append(startups, Startup(card, now)), now)
         ELSE SearchLoop(Tail(company_cards), startups, now)

\* mock_startups of run()
MockDescription1 ==
    <<"Y"," ","C","o","m","b","i","n","a","t","o","r"," ","W","2","0","2","4"," ","b",
    "a","t","c","h","."," ","W","e","'","r","e"," ","b","u","i","l","d","i","n","g"," ",
    "A","I","-","p","o","w","e","r","e","d"," ","t","o","o","l","s"," ","f","o","r"," ",
    "s","o","f","t","w","a","r","e"," ","d","e","v","e","l","o","p","m","e","n","t",
    ".">>
MockDescription2 ==
    <<"Y","C"," ","S","2","0","2","3"," ","b","a","t","c","h","."," ","E","n","t","e",
    "r","p","r","i","s","e"," ","A","I"," ","s","o","l","u","t","i","o","n","s"," ","f",
    "o","r"," ","d","a","t","a"," ","a","n","a","l","y","t","i","c","s",".">>
mock_startups(now) ==
    << [name |-> "AI Builder", description |-> MockDescription1,
        url |-> <<"https://www.linkedin.com/company/", "aibuilder">>,
        found_date |-> strftime(now)],
       [name |-> "DataSense AI", description |-> MockDescription2,
        url |-> <<"https://www.linkedin.com/company/", "datasense-ai">>,
        found_date |-> strftime(now)] >>

\* The store file: missing, not JSON ("badsyntax"), JSON that is not a list of
\* objects such as a number or null ("nonarray"), or a JSON list ("array").
Missing == [kind |-> "missing", value |-> <<>>]
BadSyntax == [kind |-> "badsyntax", value |-> <<>>]
NonArray == [kind |-> "nonarray", value |-> <<>>]
Array(s) == [kind |-> "array", value |-> s]

\* existing_startups after the read: os.path.exists, json.load, JSONDecodeError
Load(file) == IF file.kind = "array" THEN file.value ELSE <<>>

\* [s["name"] for s in existing_startups] raises (TypeError, KeyError)
NamesRaise(file) ==
    \/ file.kind = "nonarray"
    \/ file.kind = "array" /\ \E i \in 1..Len(file.value) : "name" \notin DOMAIN file.value[i]

\* mutant: the names of the stored records are not collected
NoExistingNames(existing_startups) == <<>>

\* existing_names = [s["name"] for s in existing_startups]
ExistingNames(existing_startups) ==
    [i \in 1..Len(existing_startups) |-> existing_startups[i].name]

\* startup["name"] not in existing_names
IsNew(startup, existing_names) == startup.name \notin Range(existing_names)

\* mutant: the new record is put in front
Prepended(existing_startups, startup) == <<startup>> \o existing_startups

\* existing_startups.append(startup)
Appended(existing_startups, startup) == Append(existing_startups, startup)

\* mutant: the name of an added record is not remembered
NamesNotExtended(existing_names, startup) == existing_names

\* existing_names.append(startup["name"])
NamesAfter(existing_names, startup) == Append(existing_names, startup.name)

\* mutant: a record found again replaces the stored one
RECURSIVE MergeLoopOverwrite(_, _, _)
MergeLoopOverwrite(existing_startups, existing_names, startups) ==
    IF startups = <<>> THEN existing_startups
    ELSE LET startup == Head(startups) IN
         IF startup.name \notin Range(existing_names)
         THEN MergeLoopOverwrite(Append(existing_startups, startup),
                                 Append(existing_names, startup.name), Tail(startups))
         ELSE MergeLoopOverwrite(
                  [i \in 1..Len(existing_startups) |->
                      IF existing_startups[i].name = startup.name
                      THEN startup ELSE existing_startups[i]],
                  existing_names, Tail(startups))

\* the merge loop of save_startups_data
RECURSIVE MergeLoop(_, _, _)
MergeLoop(existing_startups, existing_names, startups) ==
    IF startups = <<>> THEN existing_startups
    ELSE LET startup == Head(startups) IN
         IF IsNew(startup, existing_names)
         THEN MergeLoop(Appended(existing_startups, startup),
                        NamesAfter(existing_names, startup), Tail(startups))
         ELSE MergeLoop(existing_startups, existing_names, Tail(startups))

Merge(existing_startups, startups) ==
    MergeLoop(existing_startups, ExistingNames(existing_startups), startups)

\* x.get("found_date", "")
SortKey(x) == Get(x, "found_date", <<>>)

\* mutant: x goes in front of the elements with an equal key
RECURSIVE InsertSortedUnstable(_, _)
InsertSortedUnstable(placed, x) ==
    IF placed = <<>> THEN <<x>>
    ELSE IF ~StrLess(SortKey(x), SortKey(Head(placed)))
    THEN <<x>> \o placed
    ELSE <<Head(placed)>> \o InsertSortedUnstable(Tail(placed), x)

\* where list.sort(key, reverse=True) puts x among the already placed: after
\* every element whose key is not smaller (the sort is stable)
RECURSIVE InsertSorted(_, _)
InsertSorted(placed, x) ==
    IF placed = <<>> THEN <<x>>
    ELSE IF StrLess(SortKey(Head(placed)), SortKey(x))
    THEN <<x>> \o placed
    ELSE <<Head(placed)>> \o InsertSorted(Tail(placed), x)

RECURSIVE SortLoop(_, _)
SortLoop(placed, rest) ==
    IF rest = <<>> THEN placed
    ELSE SortLoop(InsertSorted(placed, Head(rest)), Tail(rest))

\* mutant: the list is left as it is
NotSorted(startups) == startups

\* startups.sort(key=lambda x: x.get("found_date", ""), reverse=True)
SortByFoundDate(startups) == SortLoop(<<>>, startups)

\* description[:100] + "..." if len(description) > 100 else description
ShortDesc(description) ==
    IF Len(description) > TruncLen
    THEN SubSeq(description, 1, TruncLen) \o S_dots
    ELSE description

\* f"[Profile]({url})" if url else "N/A"
Link(url) == IF url # <<>> THEN <<"[Profile](">> \o url \o <<")">> ELSE <<"N/A">>

\* one table row
Row(startup) ==
    [name |-> startup.name,
     short_desc |-> ShortDesc(startup.description),
     found_date |-> Get(startup, "found_date", S_NA),
     link |-> Link(Get(startup, "url", <<>>))]

\* startup["name"] or startup["description"] raises KeyError in the row loop
RowsRaise(startups) ==
    \E i \in 1..Len(startups) :
        "name" \notin DOMAIN startups[i] \/ "description" \notin DOMAIN startups[i]

Rows(startups) == [i \in 1..Len(startups) |-> Row(startups[i])]

\* README.md as the repository ships it, and as update_readme writes it
Original == [kind |-> "original", updated |-> <<>>, rows |-> <<>>]
Generated(now, startups) ==
    [kind |-> "generated", updated |-> strftime(now), rows |-> Rows(startups)]

\* mutant: the result of the login is not looked at
AfterLoginIgnored(login_success) == "search"

\* where run() goes after login_to_linkedin returned
AfterLogin(login_success) == IF login_success THEN "search" ELSE "idle"

\* an exception leaving save_startups_data or update_readme: caught by the
\* try of run() with credentials, propagating out of run() without
Failure == IF creds THEN "error" ELSE "crashed"

---------------------------------------------------------------------------
(* Actions. *)

\* run(): entry, and the mock branch up to the call of save_startups_data
run ==
    /\ pc = "idle"
    /\ runs < MaxRuns
    /\ \E c \in BOOLEAN, now \in today..MaxDay :
        /\ creds' = c
        /\ today' = now
        /\ batch' = IF c THEN <<>> ELSE mock_startups(now)
        /\ pc' = IF c THEN "setup" ELSE "save"
    /\ runs' = runs + 1
    /\ store0' = storeFile
    /\ readme0' = readme
    /\ outcome' = "running"
    /\ cards' = <<>>
    /\ all_startups' = <<>>
    /\ passed' = <<>>
    /\ save_called' = FALSE
    /\ render_called' = FALSE
    /\ UNCHANGED <<storeFile, readme>>

\* setup_driver(): webdriver.Chrome returns a driver or raises
setup_driver ==
    /\ pc = "setup"
    /\ \E started \in BOOLEAN :
        /\ pc' = IF started THEN "login" ELSE "idle"
        /\ outcome' = IF started THEN outcome ELSE "setup_failed"
    /\ UNCHANGED <<storeFile, readme, creds, today, cards, batch, all_startups, runs,
                   store0, readme0, passed, save_called, render_called>>

\* login_to_linkedin() and the test of its result in run()
login_to_linkedin ==
    /\ pc = "login"
    /\ \E login_success \in BOOLEAN :
        /\ pc' = AfterLogin(login_success)
        /\ outcome' = IF login_success THEN outcome ELSE "login_failed"
    /\ UNCHANGED <<storeFile, readme, creds, today, cards, batch, all_startups, runs,
                   store0, readme0, passed, save_called, render_called>>

\* search_yc_ai_startups(): the page loads and shows some cards, or an
\* exception before the loop returns the empty list
search_yc_ai_startups ==
    /\ pc = "search"
    /\ \/ /\ cards' = <<>>
          /\ batch' = <<>>
       \/ \E company_cards \in CardSeqs :
          /\ cards' = company_cards
          /\ batch' = SearchLoop(company_cards, <<>>, today)
    /\ pc' = "save"
    /\ UNCHANGED <<storeFile, readme, creds, today, all_startups, outcome, runs,
                   store0, readme0, passed, save_called, render_called>>

\* save_startups_data(startups)
save_startups_data ==
    /\ pc = "save"
    /\ save_called' = TRUE
    /\ IF NamesRaise(storeFile)
       THEN /\ pc' = "idle"
            /\ outcome' = Failure
            /\ UNCHANGED <<storeFile, all_startups, passed>>
       ELSE LET existing_startups == Merge(Load(storeFile), batch) IN
            /\ storeFile' = Array(existing_startups)
            /\ all_startups' = existing_startups
            /\ passed' = existing_startups
            /\ pc' = "render"
            /\ UNCHANGED outcome
    /\ cards' = <<>>
    /\ UNCHANGED <<readme, creds, today, batch, runs, store0, readme0, render_called>>

\* update_readme(startups)
update_readme ==
    /\ pc = "render"
    /\ render_called' = TRUE
    /\ all_startups' = SortByFoundDate(all_startups)
    /\ IF RowsRaise(all_startups')
       THEN /\ outcome' = Failure
            /\ UNCHANGED readme
       ELSE /\ outcome' = "completed"
            /\ readme' = Generated(today, all_startups')
    /\ pc' = "idle"
    /\ UNCHANGED <<storeFile, creds, today, cards, batch, runs, store0, readme0,
                   passed, save_called>>

Next ==
    \/ run
    \/ setup_driver
    \/ login_to_linkedin
    \/ search_yc_ai_startups
    \/ save_startups_data
    \/ update_readme

InitRest ==
    /\ readme = Original
    /\ pc = "idle"
    /\ creds = FALSE
    /\ today = 1
    /\ cards = <<>>
    /\ batch = <<>>
    /\ all_startups = <<>>
    /\ outcome = "none"
    /\ runs = 0
    /\ store0 = storeFile
    /\ readme0 = readme
    /\ passed = <<>>
    /\ save_called = FALSE
    /\ render_called = FALSE

\* a fresh checkout: no store file, or an empty list
Init ==
    /\ storeFile \in {Missing, Array(<<>>)}
    /\ InitRest

Spec == Init /\ [][Next]_vars

\* a record of the store file without description, url and found_date
NameOnly == [name |-> "X"]

\* the store file holds whatever was put there
InitAnyStore ==
    /\ storeFile \in {Missing, Array(<<>>), BadSyntax, NonArray, Array(<<NameOnly>>)}
    /\ InitRest

SpecAnyStore == InitAnyStore /\ [][Next]_vars

---------------------------------------------------------------------------
(* Properties. *)

\* the records a store file holds
Records(file) == IF file.kind = "array" THEN file.value ELSE <<>>

Names(s) == { s[i].name : i \in 1..Len(s) }

\* the run has ended
Ended == pc = "idle" /\ runs > 0

\* sub occurs in s at position i, with characters compared by Same
OccursAt(sub, s, i, Same(_, _)) ==
    /\ i + Len(sub) - 1 <= Len(s)
    /\ \A k \in 1..Len(sub) : Same(s[i + k - 1], sub[k])
Exact(c, d) == c = d
IgnoringCase(c, d) == LowerChar(c) = LowerChar(d)

MentionsAI(d) ==
    \/ \E i \in 1..Len(d) : OccursAt(S_AI, d, i, Exact)
    \/ \E i \in 1..Len(d) : OccursAt(S_artificial_intelligence, d, i, IgnoringCase)
MentionsYC(d) ==
    \/ \E i \in 1..Len(d) : OccursAt(S_Y_Combinator, d, i, Exact)
    \/ \E i \in 1..Len(d) : OccursAt(S_YC, d, i, Exact)

\* a is b with some elements left out, the order kept
RECURSIVE IsSubsequence(_, _)
IsSubsequence(a, b) ==
    IF a = <<>> THEN TRUE
    ELSE IF b = <<>> THEN FALSE
    ELSE IF Head(a) = Head(b) THEN IsSubsequence(Tail(a), Tail(b))
    ELSE IsSubsequence(a, Tail(b))

\* the calendar day a found_date names
DayOf(found_date) == CHOOSE n \in 1..Len(Calendar) : strftime(n) = found_date

\* the position of the record called name in s
Position(name, s) == CHOOSE i \in 1..Len(s) : s[i].name = name

\* C1: starting from a missing or empty store, no two records of the store
\* file have the same name, whatever the runs and their batches were.
C1_UniqueNames ==
    \A i, j \in 1..Len(Records(storeFile)) :
        i # j => Records(storeFile)[i].name # Records(storeFile)[j].name

\* C1 witness: a batch that repeats a name was merged and saved.
C1_Witness ==
    /\ Ended /\ outcome = "completed"
    /\ \E i, j \in 1..Len(batch) : i < j /\ batch[i].name = batch[j].name
    /\ \E i \in 1..Len(batch) : batch[i].name \in Names(Records(storeFile))

\* C2: every record the store held when the run started is still there,
\* and every stored record of that name equals it in every field.
C2_FirstWriteWins ==
    \A i \in 1..Len(Records(store0)) :
        LET r == Records(store0)[i]
            new == Records(storeFile)
        IN /\ \E j \in 1..Len(new) : new[j] = r
           /\ \A j \in 1..Len(new) : new[j].name = r.name => new[j] = r

\* C2 witness: a run whose batch holds a stored name with another
\* description and another found_date has saved.
C2_Witness ==
    /\ Ended /\ outcome = "completed"
    /\ \E i \in 1..Len(batch), j \in 1..Len(Records(store0)) :
        /\ batch[i].name = Records(store0)[j].name
        /\ batch[i].description # Records(store0)[j].description
        /\ batch[i].found_date # Records(store0)[j].found_date

\* C3: the store as it was when the run started is a prefix of the store,
\* and what the run added follows it in the order of the batch.
C3_AppendOnly ==
    LET old == Records(store0)
        new == Records(storeFile)
    IN /\ Len(old) <= Len(new)
       /\ SubSeq(new, 1, Len(old)) = old
       /\ IsSubsequence(SubSeq(new, Len(old) + 1, Len(new)), batch)

\* C3 witness: a run added two records to a store that held some.
C3_Witness ==
    /\ Ended /\ outcome = "completed"
    /\ Len(Records(store0)) >= 1
    /\ Len(Records(storeFile)) >= Len(Records(store0)) + 2

\* C4: a run that has ended either rewrote the report, or left the store
\* file and the report as they were.
C4_RenderOrNothing ==
    Ended => \/ outcome = "completed" /\ render_called
             \/ storeFile = store0 /\ readme = readme0

\* C5: with credentials, a failed session setup or login ends the run with
\* the store file and the report as they were and neither
\* save_startups_data nor update_readme entered.
C5_AbortUntouched ==
    outcome \in {"setup_failed", "login_failed"} =>
        /\ pc = "idle" /\ creds
        /\ storeFile = store0 /\ readme = readme0
        /\ ~save_called /\ ~render_called
        /\ cards = <<>> /\ batch = <<>>

\* C5 witness: a login failed in a run that started with a store of records.
C5_Witness ==
    /\ Ended /\ outcome = "login_failed"
    /\ Len(Records(storeFile)) >= 1
    /\ readme.kind = "generated"

\* a JSON list of objects that have the four fields of a startup record
ValidStore(file) ==
    /\ file.kind = "array"
    /\ \A i \in 1..Len(file.value) :
        DOMAIN file.value[i] = {"name", "description", "url", "found_date"}

\* C6: a run that reaches save_startups_data with a missing or corrupt store
\* file completes, and the store then holds the batch merged into nothing.
C6_CorruptStoreTolerated ==
    (Ended /\ save_called /\ ~ValidStore(store0)) =>
        /\ outcome = "completed"
        /\ storeFile.kind = "array"
        /\ Names(storeFile.value) = Names(batch)
        /\ IsSubsequence(storeFile.value, batch)

\* C7: the batch handed to the merge is, in order, the records of exactly the
\* cards that gave a name and a description and whose description mentions
\* AI and mentions YC.
C7_QualifiedOnly ==
    (pc = "save" /\ creds) =>
        LET Kept(c) == /\ c.name_ok /\ c.desc_ok
                       /\ MentionsAI(c.description) /\ MentionsYC(c.description)
            kept == SelectSeq(cards, Kept)
        IN /\ Len(batch) = Len(kept)
           /\ \A i \in 1..Len(kept) :
                /\ batch[i].name = kept[i].name
                /\ batch[i].description = kept[i].description

\* C7 witness: of two cards, one mentions only one half and is left out.
C7_Witness ==
    /\ pc = "save" /\ creds /\ Len(cards) = 2 /\ Len(batch) = 1
    /\ \A i \in 1..2 : cards[i].name_ok /\ cards[i].desc_ok
    /\ \E i \in 1..2 : MentionsAI(cards[i].description) # MentionsYC(cards[i].description)

\* batches to merge a second time
SampleRecord(name, n) ==
    [name |-> name, description |-> D_AI_YC, url |-> NoURL, found_date |-> strftime(n)]
SampleBatches ==
    LET pool == { SampleRecord("X", 1), SampleRecord("x", 1), SampleRecord("X", 2) }
    IN  UNION { [1..n -> pool] : n \in 0..2 }

\* C8: merging the batch of the run into the saved store again gives the
\* saved store, and merge(merge(A, B), B) = merge(A, B) for every store A
\* (each is the initial one or the one a save has just written).
C8_MergeIdempotent ==
    /\ (save_called /\ storeFile.kind = "array" /\ outcome # "crashed" /\ outcome # "error")
          => Merge(Records(storeFile), batch) = Records(storeFile)
    /\ (~NamesRaise(storeFile) /\ (runs = 0 \/ pc = "render")) =>
          \A B \in SampleBatches :
              LET A == Records(storeFile)
              IN  Merge(Merge(A, B), B) = Merge(A, B)

\* C8 witness: a batch with a stored name and a new name was saved.
C8_Witness ==
    /\ Ended /\ outcome = "completed"
    /\ \E i \in 1..Len(batch) : batch[i].name \in Names(Records(store0))
    /\ \E i \in 1..Len(batch) : batch[i].name \notin Names(Records(store0))

\* C9: the rows of the report are the records passed to update_readme, one
\* row each, later days first, and records of the same day in the order
\* they were passed in.
C9_ReportSortedStable ==
    (Ended /\ outcome = "completed") =>
        LET rows == readme.rows IN
        /\ Len(rows) = Len(passed)
        /\ { rows[i].name : i \in 1..Len(rows) } = Names(passed)
        /\ \A i \in 1..Len(rows) :
            rows[i].found_date = passed[Position(rows[i].name, passed)].found_date
        /\ \A i, j \in 1..Len(rows) :
            i < j =>
              \/ DayOf(rows[i].found_date) > DayOf(rows[j].found_date)
              \/ /\ rows[i].found_date = rows[j].found_date
                 /\ Position(rows[i].name, passed) < Position(rows[j].name, passed)

\* C9 witness: two records of one day after a record of an earlier day.
C9_Witness ==
    /\ Ended /\ outcome = "completed" /\ Len(passed) >= 3
    /\ passed[2].found_date = passed[3].found_date
    /\ passed[1].found_date # passed[2].found_date
    /\ readme.rows[1].name = passed[2].name

\* the list is ordered by found_date, later days first
Descending(s) ==
    \A i, j \in 1..Len(s) : i < j => DayOf(s[i].found_date) >= DayOf(s[j].found_date)

\* C10 as stated: after update_readme the list passed to it is in the order
\* it had before the call, and the store file is in merge order.
C10_ArgumentUntouched ==
    (Ended /\ render_called) =>
        /\ all_startups = passed
        /\ Records(storeFile) = passed

\* C10 amended: update_readme sorts the list it is passed in place, so after
\* it the list is ordered by found_date, later days first, and differs from
\* what was passed unless that was so ordered; the store file, written
\* before the call, keeps the merge order.
C10_SortedInPlace ==
    (Ended /\ outcome = "completed") =>
        /\ Descending(all_startups)
        /\ Names(all_startups) = Names(passed)
        /\ ~Descending(passed) => all_startups # passed
        /\ Records(storeFile) = passed
        /\ Records(storeFile) = Merge(Records(store0), batch)

\* C10 witness: update_readme has reordered the list it was passed.
C10_Witness ==
    /\ Ended /\ outcome = "completed"
    /\ all_startups # passed
    /\ Records(storeFile) = passed

====
